---- MODULE Spec2Model ----
(***************************************************************************)
(* A model of drgn_tools/scsi.py: the SCSI host / device / in-flight       *)
(* command reports that ScsiInfo.run prints from a kernel memory image.    *)
(*                                                                         *)
(* The debuggee (prog) is a read-only memory image: list_head.next links,  *)
(* typed objects by address, the type layout (which optional members       *)
(* exist) and whether sd_mod's type information is loaded.  The program    *)
(* state is the position in run / print_scsi_hosts / print_shost_devs /    *)
(* print_scsi_cmnds, the generators' cursors, the locals of those          *)
(* functions, what was printed, and the exception that ended the run.      *)
(***************************************************************************)
EXTENDS Integers, Sequences, FiniteSets, TLC

VARIABLES
    fixture,    \* what the image was built from; the program never reads it
    prog,       \* the debuggee: memory image, type layout, debuginfo
    args,       \* argparse.Namespace: hosts, devices, queue
    pc,         \* position in ScsiInfo.run and the print_* functions
    pos,        \* for_each_scsi_host: list cursor in the shost_class klist
    dpos,       \* for_each_scsi_host_device: list cursor in shost.__devices
    disk_i,     \* for_each_disk: index of the current disk
    cmnd_it,    \* for_each_scsi_cmnd: the paths entered and the commands left
    output,     \* the local table `output` of the running print_* function
    counter,    \* print_scsi_cmnds: local `counter`
    sector,     \* print_scsi_cmnds: local `sector`, <<>> while unbound
    stdout,     \* everything print / print_table wrote, in order
    raised      \* the exception that left ScsiInfo.run, "none" otherwise

vars == <<fixture, prog, args, pc, pos, dpos, disk_i, cmnd_it, output, counter, sector,
          stdout, raised>>

(***************************************************************************)
(* Bounds of the model.                                                    *)
(***************************************************************************)
MaxHosts == 2       \* hosts on the shost_class list
MaxDevs == 2        \* scsi devices per host
MaxDisks == 2       \* disks for_each_disk yields
MaxReqs == 2        \* pending requests in the image
ULongBits == 4      \* width of unsigned long in the model (64 in the kernel)

(***************************************************************************)
(* Type layout of the debuggee: sizes and member offsets.  The values are  *)
(* those of one build; the code only ever gets them from the type info.    *)
(***************************************************************************)
Sizeof_request == 256               \* sizeof(struct request)
Offsetof_shost_dev == 512           \* struct Scsi_Host . shost_dev
Offsetof_devices == 16              \* struct Scsi_Host . __devices
Offsetof_knode_class == 64          \* struct device . knode_class.n_node
Offsetof_priv_knode_class == 8      \* struct device_private . knode_class.n_node
Offsetof_siblings == 24             \* struct scsi_device . siblings
Offsetof_shost_data == 1024         \* struct Scsi_Host . shost_data
Offsetof_hostdata == 2048           \* struct Scsi_Host . hostdata

\* Addresses the image places its objects at.
Addr_klist_devices == 128           \* &subsys_p->klist_devices.k_list
HostAddr(i) == 8192 * i
PrivAddr(i) == 8192 * i + 4096
\* list_add puts a new device at the head: link order is not address order
SdevAddr(i, j) == 8192 * i + 4096 - 256 * j
DiskAddr(d) == 1024 * d + 512
ScsiDiskAddr(d) == 1024 * d + 544
QueueAddr(d) == 1024 * d + 576
DiskSdevAddr(d) == 1024 * d + 608
\* requests are allocated downwards: pending order is not address order
RequestAddr(r) == 8192 - 1024 * r
BioAddr(r) == 8192 - 1024 * r + 768

(***************************************************************************)
(* Cells of a printed table row: Python str, int, hex(...) of an int,      *)
(* f"host{n}" and timestamp_str(...).                                      *)
(***************************************************************************)
Str(s) == [t |-> "str", v |-> s]
Num(n) == [t |-> "int", v |-> n]
hex(n) == [t |-> "hex", v |-> n]
str(n) == [t |-> "dec", v |-> n]
HostN(n) == [t |-> "host", v |-> n]
timestamp_str(ns) == [t |-> "timestamp", v |-> ns]

\* What a string read returns for memory that cannot be read.
FaultError == "<FaultError>"

Range(s) == {s[i] : i \in DOMAIN s}
(***************************************************************************)
(* The memory image.  A host descriptor gives the strings the image holds  *)
(* for one host (FaultError where the module name cannot be read, "" for   *)
(* a NULL version pointer) and its number of devices.  A fault is a        *)
(* property of one string read: of a host's module name, of a device's     *)
(* vendor, of a device's kobject name.  Every other read succeeds.         *)
(***************************************************************************)
ModuleNames == {"ahci", "mpt3sas", FaultError}
ModuleVersions == {"", "43.100"}

HostDescs(maxDevs) ==
    [module : ModuleNames, version : ModuleVersions, ndevs : 0..maxDevs]

HostLists(maxHosts, maxDevs) ==
    UNION {[1..n -> HostDescs(maxDevs)] : n \in 0..maxHosts}

\* The devices of a host list, as <<host index, device index>>.
DevicesOf(hl) == {<<i, j>> \in (DOMAIN hl) \X (1..MaxDevs + 1) : j <= hl[i].ndevs}

\* A fault is injected on at most one string read of one device.
Injections(hl) ==
    {<<>>} \cup {<<d[1], d[2], f>> : d \in DevicesOf(hl), f \in {"vendor", "name"}}

Layouts ==
    [class_in_private : BOOLEAN, host_busy : BOOLEAN, eh_deadline : BOOLEAN,
     mq_ops : BOOLEAN, request : BOOLEAN, bi_sector : BOOLEAN]

\* A circular list: head -> nodes[1] -> ... -> nodes[n] -> head.
Ring(head, nodes) ==
    [a \in {head} \cup Range(nodes) |->
        IF a = head
        THEN IF nodes = <<>> THEN head ELSE nodes[1]
        ELSE LET k == CHOOSE k \in DOMAIN nodes : nodes[k] = a
             IN  IF k = Len(nodes) THEN head ELSE nodes[k + 1]]

ClassNode(i, lay) ==
    IF lay.class_in_private
    THEN PrivAddr(i) + Offsetof_priv_knode_class
    ELSE HostAddr(i) + Offsetof_shost_dev + Offsetof_knode_class

RECURSIVE DeviceRings(_, _)
DeviceRings(hl, i) ==
    IF i = 0 THEN << >>
    ELSE Ring(HostAddr(i) + Offsetof_devices,
              [j \in 1..hl[i].ndevs |-> SdevAddr(i, j) + Offsetof_siblings])
         @@ DeviceRings(hl, i - 1)

HostObject(hl, i) ==
    [host_no |-> i - 1,
     module_name |-> hl[i].module,
     module_version |-> hl[i].version,
     host_busy |-> i + 2,
     host_blocked |-> i - 1,
     host_failed |-> 2 * i,
     shost_state |-> IF i = 1 THEN "SHOST_RUNNING" ELSE "SHOST_RECOVERY",
     eh_deadline |-> 10 * i,
     kobj_name |-> HostN(i - 1)]

SdevObject(hl, inj, i, j) ==
    [host_no |-> i - 1, channel |-> 0, id |-> j - 1, lun |-> 0,
     vendor |-> IF inj = <<i, j, "vendor">> THEN FaultError ELSE "ATA",
     kobj_name |-> IF inj = <<i, j, "name">> THEN FaultError ELSE "sdev",
     sdev_state |-> IF j = 1 THEN "SDEV_RUNNING" ELSE "SDEV_BLOCK",
     iorequest_cnt |-> 10 * i + j, iodone_cnt |-> 10 * i, ioerr_cnt |-> j - 1]

(***************************************************************************)
(* Disks, their queues, and the pending requests.  A request descriptor    *)
(* gives the bytes of the command attached to the request, the command's   *)
(* transfersize and jiffies_at_alloc, and the sector of the request's bio  *)
(* (has_bio FALSE: request.bio is NULL).                                   *)
(***************************************************************************)
Distinct(s) == \A i, k \in DOMAIN s : s[i] = s[k] => i = k

PendingLists(ids) ==
    {s \in UNION {[1..n -> ids] : n \in 0..Cardinality(ids)} : Distinct(s)}

DiskDescs(ids) ==
    [mq : BOOLEAN, device_null : BOOLEAN, pending : PendingLists(ids)]

\* Every request is pending on at most one queue.
DiskLists(maxDisks, ids) ==
    {dl \in UNION {[1..n -> DiskDescs(ids)] : n \in 0..maxDisks} :
        \A d, e \in DOMAIN dl :
            d # e => Range(dl[d].pending) \cap Range(dl[e].pending) = {}}

Cdb(opcode, b7, b8) ==
    [i \in 0..9 |-> CASE i = 0 -> opcode [] i = 7 -> b7 [] i = 8 -> b8
                      [] OTHER -> 0]

DiskObject(d) ==
    [disk_name |-> "sd", private_data |-> ScsiDiskAddr(d), queue |-> QueueAddr(d)]

QueueObject(dl, lay, d) ==
    LET mq == lay.mq_ops /\ dl[d].mq
        rqs == [k \in DOMAIN dl[d].pending |-> RequestAddr(dl[d].pending[k])]
    IN  [mq_ops |-> IF mq THEN QueueAddr(d) + 8 ELSE 0,
         queue_head |-> IF mq THEN << >> ELSE rqs,
         tags |-> IF mq THEN [k \in DOMAIN rqs |-> <<k % 2, rqs[k]>>] ELSE << >>]

DiskSdevObject(d) ==
    [host_no |-> 0, channel |-> 0, id |-> d, lun |-> 0,
     vendor |-> "ATA", kobj_name |-> "sdev", sdev_state |-> "SDEV_RUNNING",
     iorequest_cnt |-> d, iodone_cnt |-> d, ioerr_cnt |-> 0]

CmndObject(rd, r) ==
    [request |-> RequestAddr(r),
     cmnd |-> Cdb(rd[r].opcode, rd[r].b7, rd[r].b8),
     transfersize |-> rd[r].transfersize,
     jiffies_at_alloc |-> rd[r].alloc]

BioObject(rd, lay, r) ==
    IF lay.bi_sector
    THEN [bi_sector |-> rd[r].sector]
    ELSE [bi_iter |-> [bi_sector |-> rd[r].sector]]

(***************************************************************************)
(* The debuggee built from host descriptors hl, the injected fault inj,    *)
(* the layout lay, disk descriptors dl, request descriptors rd, the        *)
(* sampled jiffies j, and whether sd_mod's type information is loaded.     *)
(***************************************************************************)
Image(hl, inj, lay, dl, rd, j, dbg) ==
    [layout |-> lay,
     sd_mod |-> dbg,
     jiffies |-> j,
     list_next |->
        Ring(Addr_klist_devices, [i \in DOMAIN hl |-> ClassNode(i, lay)])
        @@ DeviceRings(hl, Len(hl)),
     device_private |->
        [a \in {PrivAddr(i) : i \in DOMAIN hl} |->
            LET i == CHOOSE i \in DOMAIN hl : PrivAddr(i) = a
            IN  [device |-> HostAddr(i) + Offsetof_shost_dev]],
     Scsi_Host |->
        [a \in {HostAddr(i) : i \in DOMAIN hl} |->
            HostObject(hl, CHOOSE i \in DOMAIN hl : HostAddr(i) = a)],
     scsi_device |->
        [a \in {SdevAddr(d[1], d[2]) : d \in DevicesOf(hl)} |->
            LET d == CHOOSE d \in DevicesOf(hl) : SdevAddr(d[1], d[2]) = a
            IN  SdevObject(hl, inj, d[1], d[2])]
        @@ [a \in {DiskSdevAddr(d) : d \in DOMAIN dl} |->
            DiskSdevObject(CHOOSE d \in DOMAIN dl : DiskSdevAddr(d) = a)],
     disks |-> [d \in DOMAIN dl |-> DiskAddr(d)],
     gendisk |->
        [a \in {DiskAddr(d) : d \in DOMAIN dl} |->
            DiskObject(CHOOSE d \in DOMAIN dl : DiskAddr(d) = a)],
     scsi_disk |->
        [a \in {ScsiDiskAddr(d) : d \in DOMAIN dl} |->
            LET d == CHOOSE d \in DOMAIN dl : ScsiDiskAddr(d) = a
            IN  [device |-> IF dl[d].device_null THEN 0 ELSE DiskSdevAddr(d)]],
     request_queue |->
        [a \in {QueueAddr(d) : d \in DOMAIN dl} |->
            QueueObject(dl, lay, CHOOSE d \in DOMAIN dl : QueueAddr(d) = a)],
     request |->
        [a \in {RequestAddr(r) : r \in DOMAIN rd} |->
            LET r == CHOOSE r \in DOMAIN rd : RequestAddr(r) = a
            IN  [bio |-> IF rd[r].has_bio THEN BioAddr(r) ELSE 0]],
     scsi_cmnd |->
        [a \in {RequestAddr(r) + Sizeof_request : r \in DOMAIN rd} |->
            CmndObject(rd, CHOOSE r \in DOMAIN rd :
                                RequestAddr(r) + Sizeof_request = a)],
     bio |->
        [a \in {BioAddr(r) : r \in {r \in DOMAIN rd : rd[r].has_bio}} |->
            BioObject(rd, lay, CHOOSE r \in DOMAIN rd : BioAddr(r) = a)]]

(***************************************************************************)
(* Helpers of the program.                                                 *)
(***************************************************************************)
has_member(member) == prog.layout[member]

container_of(ptr, offset) == ptr - offset

\* drgn's list_for_each_entry: from head.next until back at head, each node
\* resolved to its container.
RECURSIVE list_for_each_entry(_, _, _)
list_for_each_entry(head, node, offset) ==
    IF node = head THEN << >>
    ELSE <<container_of(node, offset)>>
         \o list_for_each_entry(head, prog.list_next[node], offset)

for_each_scsi_host ==
    LET devices == Addr_klist_devices
        first == prog.list_next[devices]
    IN  IF has_member("class_in_private")
        THEN LET privs == list_for_each_entry(devices, first,
                                              Offsetof_priv_knode_class)
             IN  [k \in DOMAIN privs |->
                    container_of(prog.device_private[privs[k]].device,
                                 Offsetof_shost_dev)]
        ELSE LET devs == list_for_each_entry(devices, first, Offsetof_knode_class)
             IN  [k \in DOMAIN devs |-> container_of(devs[k], Offsetof_shost_dev)]

host_module_name(shost) ==
    LET name == prog.Scsi_Host[shost].module_name
    IN  IF name = FaultError THEN "unknown" ELSE name

\* for_each_scsi_host_device with the walk started one node too far
for_each_scsi_host_device_skip_first(shost) ==
    LET head == shost + Offsetof_devices
    IN  list_for_each_entry(head, prog.list_next[prog.list_next[head]],
                            Offsetof_siblings)

for_each_scsi_host_device(shost) ==
    LET head == shost + Offsetof_devices
    IN  list_for_each_entry(head, prog.list_next[head], Offsetof_siblings)

scsi_device_name(sdev) ==
    LET name == prog.scsi_device[sdev].kobj_name
    IN  IF name = FaultError THEN "" ELSE name

scsi_id(scsi_dev) ==
    IF scsi_dev = 0 THEN Str("<unknown>")
    ELSE LET d == prog.scsi_device[scsi_dev]
         IN  [t |-> "hctl", v |-> <<d.host_no, d.channel, d.id, d.lun>>]

Table(rows) == [t |-> "table", v |-> rows]
Line(text) == [t |-> "line", v |-> text]
Rule == Line("----")

(***************************************************************************)
(* print_scsi_hosts                                                        *)
(***************************************************************************)
HostsHeader ==
    <<Str("SCSI_HOST"), Str("NAME"), Str("DRIVER"), Str("Version"), Str("Busy"),
      Str("Blocked"), Str("Fail"), Str("State"), Str("EH val")>>

\* host_busy read without the has_member probe
host_busy_unprobed(shost) == Num(prog.Scsi_Host[shost].host_busy)

host_busy_cell(shost) ==
    IF has_member("host_busy")
    THEN Num(prog.Scsi_Host[shost].host_busy)
    ELSE Str("n/a")

eh_deadline_cell(shost) ==
    IF has_member("eh_deadline")
    THEN Num(prog.Scsi_Host[shost].eh_deadline)
    ELSE Str("n/a")

ScsiHostRow(shost) ==
    LET h == prog.Scsi_Host[shost]
        modver == IF h.module_version # "" THEN h.module_version ELSE "n/a"
    IN  <<hex(shost), HostN(h.host_no), Str(host_module_name(shost)),
          Str(modver), host_busy_cell(shost), Num(h.host_blocked),
          Num(h.host_failed), Str(h.shost_state), eh_deadline_cell(shost)>>

\* run, `if args.hosts: print_scsi_hosts(prog)`, up to the loop's first test
run_hosts ==
    /\ pc = "run_hosts"
    /\ IF args.hosts
       THEN /\ pc' = "print_scsi_hosts"
            /\ output' = <<HostsHeader>>
            /\ pos' = for_each_scsi_host
       ELSE /\ pc' = "run_devices"
            /\ UNCHANGED <<output, pos>>
    /\ UNCHANGED <<fixture, prog, args, dpos, disk_i, cmnd_it, counter, sector,
                   stdout, raised>>

\* one pass of the loop over the hosts, or its end and print_table(output)
print_scsi_hosts ==
    /\ pc = "print_scsi_hosts"
    /\ IF pos = << >>
       THEN /\ stdout' = Append(stdout, Table(output))
            /\ pc' = "run_devices"
            /\ UNCHANGED <<pos, output>>
       ELSE LET shost == Head(pos)
            IN  /\ pos' = Tail(pos)
                /\ output' = IF host_module_name(shost) = "ahci"
                             THEN output
                             ELSE Append(output, ScsiHostRow(shost))
                /\ UNCHANGED <<stdout, pc>>
    /\ UNCHANGED <<fixture, prog, args, dpos, disk_i, cmnd_it, counter, sector,
                   raised>>

(***************************************************************************)
(* print_shost_devs                                                        *)
(***************************************************************************)
\* drgn_tools.module.ensure_debuginfo(prog, ["sd_mod"]): a message when the
\* module's type information is not loaded, nothing ("") otherwise.
ensure_debuginfo ==
    IF prog.sd_mod THEN "" ELSE "sd_mod: debuginfo is not loaded"

print_shost_header(shost) ==
    LET h == prog.Scsi_Host[shost]
    IN  <<Rule,
          Table(<<<<Str("HOST"), Str("DRIVER"), Str("Scsi_Host"),
                    Str("shost_data"), Str("hostdata")>>,
                  <<h.kobj_name, Str(host_module_name(shost)), hex(shost),
                    hex(shost + Offsetof_shost_data),
                    hex(shost + Offsetof_hostdata)>>>>),
          Rule>>

DevsHeader ==
    <<Str("Device"), Str("H:C:T:L"), Str("Scsi Device Addr"), Str("Vendor"),
      Str("State"), Str("IO Req"), Str("IO Done"), Str("IO Error")>>

ScsiDevRow(scsi_dev) ==
    LET d == prog.scsi_device[scsi_dev]
    IN  <<Str(scsi_device_name(scsi_dev)), scsi_id(scsi_dev), hex(scsi_dev),
          Str(d.vendor), Str(d.sdev_state), Num(d.iorequest_cnt),
          Num(d.iodone_cnt), Num(d.ioerr_cnt)>>

\* run, `if args.devices: print_shost_devs(prog)`, up to the host loop
run_devices ==
    /\ pc = "run_devices"
    /\ IF ~args.devices
       THEN /\ pc' = "run_queue"
            /\ UNCHANGED <<pos, stdout>>
       ELSE IF ensure_debuginfo # ""
       THEN /\ stdout' = Append(stdout, Line(ensure_debuginfo))
            /\ pc' = "run_queue"
            /\ UNCHANGED pos
       ELSE /\ pos' = for_each_scsi_host
            /\ pc' = "print_shost_devs"
            /\ UNCHANGED stdout
    /\ UNCHANGED <<fixture, prog, args, dpos, disk_i, cmnd_it, output, counter,
                   sector, raised>>

\* one pass of the loop over the hosts up to the device loop, or its end
print_shost_devs ==
    /\ pc = "print_shost_devs"
    /\ IF pos = << >>
       THEN /\ pc' = "run_queue"
            /\ UNCHANGED <<pos, dpos, output, stdout>>
       ELSE LET shost == Head(pos)
            IN  IF host_module_name(shost) = "ahci"
                THEN /\ pos' = Tail(pos)
                     /\ UNCHANGED <<pc, dpos, output, stdout>>
                ELSE /\ stdout' = stdout \o print_shost_header(shost)
                     /\ output' = <<DevsHeader>>
                     /\ dpos' = for_each_scsi_host_device(shost)
                     /\ pc' = "print_shost_devs_dev"
                     /\ UNCHANGED pos
    /\ UNCHANGED <<fixture, prog, args, disk_i, cmnd_it, counter, sector, raised>>

\* one pass of the loop over the host's devices, or its end and
\* print_table(output)
print_shost_devs_dev ==
    /\ pc = "print_shost_devs_dev"
    /\ IF dpos = << >>
       THEN /\ stdout' = Append(stdout, Table(output))
            /\ pos' = Tail(pos)
            /\ pc' = "print_shost_devs"
            /\ UNCHANGED <<dpos, output, raised>>
       ELSE LET scsi_dev == Head(dpos)
            IN  IF prog.scsi_device[scsi_dev].vendor = FaultError
                THEN \* scsi_dev.vendor.string_() raises; nothing catches it
                     /\ raised' = "FaultError"
                     /\ pc' = "raised"
                     /\ UNCHANGED <<pos, dpos, output, stdout>>
                ELSE /\ output' = Append(output, ScsiDevRow(scsi_dev))
                     /\ dpos' = Tail(dpos)
                     /\ UNCHANGED <<pos, pc, stdout, raised>>
    /\ UNCHANGED <<fixture, prog, args, disk_i, cmnd_it, counter, sector>>

(***************************************************************************)
(* for_each_scsi_cmnd and its two paths                                    *)
(***************************************************************************)
\* drgn_tools.block: the requests pending on the single shared list
for_each_sq_pending_request(requestq) == prog.request_queue[requestq].queue_head

\* drgn_tools.block: (hardware queue, request) for every busy tag
for_each_mq_pending_request(requestq) == prog.request_queue[requestq].tags

NonZero(a) == a # 0

\* for_each_scsi_cmd_sq taking the request's address for the command's
for_each_scsi_cmd_sq_no_offset(requestq) ==
    LET rqs == for_each_sq_pending_request(requestq)
    IN  SelectSeq([k \in DOMAIN rqs |-> rqs[k]], NonZero)

for_each_scsi_cmd_sq(requestq) ==
    LET rqs == for_each_sq_pending_request(requestq)
    IN  SelectSeq([k \in DOMAIN rqs |-> rqs[k] + Sizeof_request], NonZero)

for_each_scsi_cmd_mq(requestq) ==
    LET rqs == for_each_mq_pending_request(requestq)
    IN  SelectSeq([k \in DOMAIN rqs |-> rqs[k][2] + Sizeof_request], NonZero)

\* for_each_scsi_cmnd deciding on the presence of mq_ops alone
for_each_scsi_cmnd_member_only(scsi_disk) ==
    LET rq == prog.gendisk[scsi_disk].queue
    IN  IF has_member("mq_ops")
        THEN [calls |-> <<"for_each_scsi_cmd_mq">>,
              cmnds |-> for_each_scsi_cmd_mq(rq), next |-> 1]
        ELSE [calls |-> <<"for_each_scsi_cmd_sq">>,
              cmnds |-> for_each_scsi_cmd_sq(rq), next |-> 1]

\* The generator: the paths it entered, what it yields, the next to yield.
for_each_scsi_cmnd(scsi_disk) ==
    LET rq == prog.gendisk[scsi_disk].queue
    IN  IF has_member("mq_ops") /\ prog.request_queue[rq].mq_ops # 0
        THEN [calls |-> <<"for_each_scsi_cmd_mq">>,
              cmnds |-> for_each_scsi_cmd_mq(rq), next |-> 1]
        ELSE [calls |-> <<"for_each_scsi_cmd_sq">>,
              cmnds |-> for_each_scsi_cmd_sq(rq), next |-> 1]

(***************************************************************************)
(* print_scsi_cmnds                                                        *)
(***************************************************************************)
CmndsHeader ==
    <<Str("Count"), Str("Request"), Str("Bio"), Str("SCSI Cmnd"), Str("Opcode"),
      Str("Length"), Str("Age"), Str("Sector")>>

ULongModulus == 2 ^ ULongBits

\* scsi_cmnd.request, or the request header in front of the command
request_of(scsi_cmnd) ==
    IF has_member("request")
    THEN prog.scsi_cmnd[scsi_cmnd].request
    ELSE scsi_cmnd - Sizeof_request

\* xfer_len with the two length bytes taken in the wrong order
xfer_len_low_byte_first(scsi_cmnd) ==
    LET c == prog.scsi_cmnd[scsi_cmnd]
    IN  IF c.cmnd[0] = 42 \/ c.cmnd[0] = 40
        THEN (c.cmnd[8] * 256 + c.cmnd[7]) * c.transfersize
        ELSE 0

\* (cmnd[7] << 8 | cmnd[8]) * transfersize for 0x2a and 0x28, else 0; the two
\* operands of | are a byte shifted by 8 and a byte, so | adds them
xfer_len_of(scsi_cmnd) ==
    LET c == prog.scsi_cmnd[scsi_cmnd]
    IN  IF c.cmnd[0] = 42 \/ c.cmnd[0] = 40
        THEN (c.cmnd[7] * 256 + c.cmnd[8]) * c.transfersize
        ELSE 0

\* the sector read from the request's bio; only evaluated when req.bio # 0
bio_sector(req) ==
    LET bio == prog.bio[prog.request[req].bio]
    IN  IF has_member("bi_sector") THEN bio.bi_sector ELSE bio.bi_iter.bi_sector

\* (prog["jiffies"] - scsi_cmnd.jiffies_at_alloc).value_() * 1000000: the
\* difference of two unsigned long objects is an unsigned long
age_of(scsi_cmnd) ==
    ((prog.jiffies - prog.scsi_cmnd[scsi_cmnd].jiffies_at_alloc) % ULongModulus)
    * 1000000

DiskBanner(disk, scsi_device) ==
    LET d == prog.scsi_device[scsi_device]
    IN  <<[t |-> "diskname",
           v |-> <<prog.gendisk[disk].disk_name, scsi_id(scsi_device),
                   hex(scsi_device)>>],
          [t |-> "vendor", v |-> <<d.vendor, d.sdev_state>>],
          Rule>>

\* run, `if args.queue: print_scsi_cmnds(prog)`, up to the disk loop
run_queue ==
    /\ pc = "run_queue"
    /\ IF args.queue
       THEN /\ pc' = "print_scsi_cmnds"
            /\ disk_i' = 1
       ELSE /\ pc' = "done"
            /\ UNCHANGED disk_i
    /\ UNCHANGED <<fixture, prog, args, pos, dpos, cmnd_it, output, counter,
                   sector, stdout, raised>>

\* one pass of the loop over the disks up to the command loop, or its end
print_scsi_cmnds ==
    /\ pc = "print_scsi_cmnds"
    /\ IF disk_i > Len(prog.disks)
       THEN /\ pc' = "done"
            /\ UNCHANGED <<counter, output, cmnd_it>>
       ELSE /\ counter' = 0
            /\ output' = <<CmndsHeader>>
            /\ cmnd_it' = for_each_scsi_cmnd(prog.disks[disk_i])
            /\ pc' = "print_scsi_cmnds_cmd"
    /\ UNCHANGED <<fixture, prog, args, pos, dpos, disk_i, sector, stdout, raised>>

\* The row of one command; sec is the value of `sector` after lines 334-338.
ScsiCmndRow(scsi_cmnd, req, count, sec) ==
    <<str(count), hex(req), hex(prog.request[req].bio), hex(scsi_cmnd),
      hex(prog.scsi_cmnd[scsi_cmnd].cmnd[0]), str(xfer_len_of(scsi_cmnd)),
      timestamp_str(age_of(scsi_cmnd)), str(sec[1])>>

\* one pass of the loop over the disk's commands, or its end and the
\* print_table(output) of a table that has rows
print_scsi_cmnds_cmd ==
    /\ pc = "print_scsi_cmnds_cmd"
    /\ IF cmnd_it.next > Len(cmnd_it.cmnds)
       THEN /\ stdout' = IF Len(output) > 1
                         THEN stdout \o <<Table(output), Rule>>
                         ELSE stdout
            /\ disk_i' = disk_i + 1
            /\ pc' = "print_scsi_cmnds"
            /\ UNCHANGED <<cmnd_it, output, counter, sector, raised>>
       ELSE LET disk == prog.disks[disk_i]
                scsi_cmnd == cmnd_it.cmnds[cmnd_it.next]
                scsi_disk == prog.gendisk[disk].private_data
                scsi_device == IF scsi_disk = 0 THEN 0
                               ELSE prog.scsi_disk[scsi_disk].device
                req == request_of(scsi_cmnd)
                sec == IF prog.request[req].bio # 0
                       THEN <<bio_sector(req)>>
                       ELSE sector
                banner == IF counter = 0 THEN DiskBanner(disk, scsi_device)
                          ELSE << >>
            IN  /\ disk_i' = disk_i
                /\ IF scsi_cmnd = 0
                   THEN \* `if not scsi_cmnd: continue`
                        /\ cmnd_it' = [cmnd_it EXCEPT !.next = @ + 1]
                        /\ UNCHANGED <<pc, output, counter, sector, stdout, raised>>
                   ELSE IF counter = 0 /\ ~prog.sd_mod
                   THEN \* cast("struct scsi_disk *", ...): the type is sd_mod's
                        /\ raised' = "LookupError"
                        /\ pc' = "raised"
                        /\ UNCHANGED <<cmnd_it, output, counter, sector, stdout>>
                   ELSE IF counter = 0 /\ (scsi_disk = 0 \/ scsi_device = 0)
                   THEN \* `if not scsi_disk or not scsi_device: continue`
                        /\ cmnd_it' = [cmnd_it EXCEPT !.next = @ + 1]
                        /\ UNCHANGED <<pc, output, counter, sector, stdout, raised>>
                   ELSE IF scsi_cmnd \notin DOMAIN prog.scsi_cmnd
                   THEN \* reading cmnd[0] of unmapped memory
                        /\ stdout' = stdout \o banner
                        /\ raised' = "FaultError"
                        /\ pc' = "raised"
                        /\ UNCHANGED <<cmnd_it, output, counter, sector>>
                   ELSE IF sec = << >>
                   THEN \* str(int(sector)) with `sector` never assigned
                        /\ stdout' = stdout \o banner
                        /\ counter' = counter + 1
                        /\ raised' = "UnboundLocalError"
                        /\ pc' = "raised"
                        /\ UNCHANGED <<cmnd_it, output, sector>>
                   ELSE /\ stdout' = stdout \o banner
                        /\ sector' = sec
                        /\ counter' = counter + 1
                        /\ output' = Append(output,
                               ScsiCmndRow(scsi_cmnd, req, counter + 1, sec))
                        /\ cmnd_it' = [cmnd_it EXCEPT !.next = @ + 1]
                        /\ UNCHANGED <<pc, raised>>
    /\ UNCHANGED <<fixture, prog, args, pos, dpos>>

(***************************************************************************)
(* Specifications.  Start is the state when ScsiInfo.run (or one of the    *)
(* print_* functions) is entered on the image built from fx.               *)
(***************************************************************************)
Start(fx, a, at) ==
    /\ fixture = fx
    /\ prog = Image(fx.hosts, fx.inj, fx.layout, fx.disks, fx.reqs, fx.jiffies,
                    fx.sd_mod)
    /\ args = a
    /\ pc = at
    /\ pos = << >>
    /\ dpos = << >>
    /\ disk_i = 0
    /\ cmnd_it = [calls |-> << >>, cmnds |-> << >>, next |-> 1]
    /\ output = << >>
    /\ counter = 0
    /\ sector = << >>
    /\ stdout = << >>
    /\ raised = "none"

\* Request descriptors of the images whose queues vary: a READ(10) with a bio
\* for odd r, an INQUIRY without a bio for even r.
ReqFixture(n) ==
    [r \in 1..n |->
        [opcode |-> IF r % 2 = 1 THEN 40 ELSE 18, b7 |-> 0, b8 |-> 4,
         transfersize |-> 512, alloc |-> r, has_bio |-> r % 2 = 1,
         sector |-> 2048 * r]]

NoHosts == << >>
NoDisks == << >>
NoReqs == << >>

LayoutsVarying(members) ==
    {lay \in Layouts : \A m \in DOMAIN lay : m \notin members => lay[m]}

\* print_scsi_hosts on every host list, with and without the optional members
InitHosts ==
    \E hl \in HostLists(MaxHosts, 0),
       lay \in LayoutsVarying({"class_in_private", "host_busy", "eh_deadline"}) :
        Start([hosts |-> hl, inj |-> << >>, layout |-> lay, disks |-> NoDisks,
               reqs |-> NoReqs, jiffies |-> 0, sd_mod |-> TRUE],
              [hosts |-> TRUE, devices |-> FALSE, queue |-> FALSE],
              "run_hosts")

NextHosts == run_hosts \/ print_scsi_hosts

SpecHosts == InitHosts /\ [][NextHosts]_vars

\* print_shost_devs on every host list, with a fault injected on at most one
\* device string, with and without sd_mod's type information
InitDevs ==
    \E hl \in {l \in HostLists(MaxHosts, MaxDevs) :
                    \A i \in DOMAIN l : l[i].version = "43.100"},
       lay \in LayoutsVarying({"class_in_private"}),
       dbg \in BOOLEAN :
        \E inj \in Injections(hl) :
            Start([hosts |-> hl, inj |-> inj, layout |-> lay, disks |-> NoDisks,
                   reqs |-> NoReqs, jiffies |-> 0, sd_mod |-> dbg],
                  [hosts |-> FALSE, devices |-> TRUE, queue |-> FALSE],
                  "run_devices")

NextDevs == run_devices \/ print_shost_devs \/ print_shost_devs_dev

SpecDevs == InitDevs /\ [][NextDevs]_vars

\* print_scsi_cmnds on every assignment of the pending requests to the
\* queues of the disks, single-queue and multi-queue
InitCmnds ==
    \E dl \in DiskLists(MaxDisks, 1..MaxReqs),
       lay \in LayoutsVarying({"mq_ops", "request", "bi_sector"}) :
        /\ \A d \in DOMAIN dl : dl[d].mq => lay.mq_ops
        /\ Start([hosts |-> NoHosts, inj |-> << >>, layout |-> lay, disks |-> dl,
                  reqs |-> ReqFixture(MaxReqs), jiffies |-> MaxReqs + 3,
                  sd_mod |-> TRUE],
                 [hosts |-> FALSE, devices |-> FALSE, queue |-> TRUE],
                 "run_queue")

NextCmnds == run_queue \/ print_scsi_cmnds \/ print_scsi_cmnds_cmd

SpecCmnds == InitCmnds /\ [][NextCmnds]_vars

\* print_scsi_cmnds on one disk with one pending request whose command bytes,
\* transfersize, jiffies_at_alloc and bio vary, for several sampled jiffies
Opcodes == {0, 18, 40, 42}              \* TEST UNIT READY, INQUIRY, READ(10), WRITE(10)
CdbBytes == {0, 4, 255}
TransferSizes == {0, 512, 4096}
Ticks == {0, 1, 5, ULongModulus - 1}

ReqDescs ==
    [opcode : Opcodes, b7 : CdbBytes, b8 : CdbBytes,
     transfersize : TransferSizes, alloc : Ticks, has_bio : BOOLEAN,
     sector : {2048}]

InitCdb ==
    \E rd \in ReqDescs, j \in Ticks \ {1}, mq \in BOOLEAN,
       lay \in LayoutsVarying({"request", "bi_sector"}) :
        Start([hosts |-> NoHosts, inj |-> << >>, layout |-> lay,
               disks |-> <<[mq |-> mq, device_null |-> FALSE, pending |-> <<1>>]>>,
               reqs |-> <<rd>>, jiffies |-> j, sd_mod |-> TRUE],
              [hosts |-> FALSE, devices |-> FALSE, queue |-> TRUE],
              "run_queue")

SpecCdb == InitCdb /\ [][NextCmnds]_vars

\* ScsiInfo.run for every combination of the flags, with and without sd_mod's
\* type information, on images of at most one host, one device, one disk and
\* one pending request
InitRun ==
    \E a \in [hosts : BOOLEAN, devices : BOOLEAN, queue : BOOLEAN],
       dbg \in BOOLEAN,
       hl \in {l \in HostLists(1, 1) : \A i \in DOMAIN l : l[i].version = "43.100"},
       dl \in DiskLists(1, {1}),
       bio \in BOOLEAN :
        \E inj \in Injections(hl) :
            Start([hosts |-> hl, inj |-> inj,
                   layout |-> CHOOSE lay \in LayoutsVarying({}) : TRUE,
                   disks |-> dl,
                   reqs |-> [ReqFixture(1) EXCEPT ![1].has_bio = bio],
                   jiffies |-> 4, sd_mod |-> dbg],
                  a, "run_hosts")

Next ==
    \/ run_hosts
    \/ print_scsi_hosts
    \/ run_devices
    \/ print_shost_devs
    \/ print_shost_devs_dev
    \/ run_queue
    \/ print_scsi_cmnds
    \/ print_scsi_cmnds_cmd

Spec == InitRun /\ [][Next]_vars

(***************************************************************************)
(* What the image holds, read off the fixture, for stating the properties. *)
(***************************************************************************)
IsNotAhci(i) == fixture.hosts[i].module # "ahci"

\* the hosts on the shost_class list whose module is not "ahci", in list order
NonAhciHosts ==
    LET all == [i \in DOMAIN fixture.hosts |-> i]
        kept == SelectSeq(all, IsNotAhci)
    IN  [k \in DOMAIN kept |-> HostAddr(kept[k])]

AhciHosts == {HostAddr(i) : i \in {i \in DOMAIN fixture.hosts : ~IsNotAhci(i)}}

HostIndex(shost) == CHOOSE i \in DOMAIN fixture.hosts : HostAddr(i) = shost

\* the scsi devices linked from the host's __devices, in link order
LinkedDevices(shost) ==
    [j \in 1..fixture.hosts[HostIndex(shost)].ndevs |->
        SdevAddr(HostIndex(shost), j)]

IsHostsTable(x) == x.t = "table" /\ x.v[1][1] = Str("SCSI_HOST")
IsHeaderTable(x) == x.t = "table" /\ x.v[1][1] = Str("HOST")
IsDevsTable(x) == x.t = "table" /\ x.v[1][1] = Str("Device")

\* the Scsi_Host column of the print_shost_header tables printed so far
HeaderHosts ==
    LET tables == SelectSeq(stdout, IsHeaderTable)
    IN  [k \in DOMAIN tables |-> tables[k].v[2][3].v]

\* the address column of the rows of a table, its header row left out
AddressColumn(rows, col) == [k \in 1..Len(rows) - 1 |-> rows[k + 1][col].v]

\* the Scsi Device Addr column of all device rows printed or being built
DeviceRows ==
    LET tables == SelectSeq(stdout, IsDevsTable)
    IN  UNION {Range(AddressColumn(tables[k].v, 3)) : k \in DOMAIN tables}
        \cup (IF pc \in {"print_shost_devs_dev", "raised"}
              THEN Range(AddressColumn(output, 3)) ELSE {})

DevsReportOver == pc \in {"run_queue", "raised"}

(***************************************************************************)
(* C1: a host whose module name is "ahci" never appears in the host rows,  *)
(* the device headers or the device rows, and every host whose module name *)
(* is not "ahci" does appear.  Stated for print_shost_devs: once the       *)
(* report is over (sd_mod's type information being loaded), the headers    *)
(* printed are those of exactly the non-ahci hosts, in list order, and no  *)
(* device row is a device of an ahci host.                                 *)
(***************************************************************************)
C1_AhciOnlyExcluded ==
    /\ \A a \in Range(HeaderHosts) : a \notin AhciHosts
    /\ \A a \in AhciHosts : Range(LinkedDevices(a)) \cap DeviceRows = {}
    /\ (DevsReportOver /\ prog.sd_mod) => HeaderHosts = NonAhciHosts

\* The half of C1 that the code keeps: nothing of an ahci host is printed by
\* print_shost_devs.
AhciNeverInDevs ==
    /\ \A a \in Range(HeaderHosts) : a \notin AhciHosts
    /\ \A a \in AhciHosts : Range(LinkedDevices(a)) \cap DeviceRows = {}

(***************************************************************************)
(* C2: a memory fault on the read of one device's vendor string does not   *)
(* abort print_shost_devs: no exception leaves it, and once the report is  *)
(* over every device of every non-ahci host, the faulting one included,    *)
(* has its row.                                                            *)
(***************************************************************************)
C2_VendorFaultContained ==
    (fixture.inj # << >> /\ fixture.inj[3] = "vendor") =>
        /\ raised = "none"
        /\ (pc = "run_queue" /\ prog.sd_mod) =>
              DeviceRows = UNION {Range(LinkedDevices(NonAhciHosts[k])) :
                                    k \in DOMAIN NonAhciHosts}

(***************************************************************************)
(* C8: for_each_scsi_host_device yields exactly the scsi_device objects    *)
(* linked from the host's __devices, once each, in link order, never the   *)
(* head, nothing for an empty list; each yielded address is the address of *)
(* the siblings node minus the offset of siblings.  While the device loop  *)
(* of print_shost_devs runs, the devices it has put in rows followed by    *)
(* those the generator has left are the host's linked devices.             *)
(***************************************************************************)
C8_HostDevicesWalk ==
    pc = "print_shost_devs_dev" =>
        LET head == Head(pos) + Offsetof_devices
            yielded == AddressColumn(output, 3) \o dpos
            node(k) == IF k \in DOMAIN yielded
                       THEN yielded[k] + Offsetof_siblings
                       ELSE head
        IN  /\ yielded = LinkedDevices(Head(pos))
            /\ Distinct(yielded)
            /\ prog.list_next[head] = node(1)
            /\ \A k \in DOMAIN yielded :
                  /\ node(k) # head
                  /\ prog.list_next[node(k)] = node(k + 1)
            /\ prog.list_next[head] = head => yielded = << >>

\* the device loop has walked a list of two devices to its end
C8_Witness ==
    /\ pc = "print_shost_devs_dev"
    /\ dpos = << >>
    /\ Len(output) = 3
    /\ fixture.hosts[HostIndex(Head(pos))].ndevs = 2

AhciNeverInHosts ==
    /\ \A k \in 1..Len(output) - 1 : output[k + 1][1].v \notin AhciHosts
    /\ pc = "run_devices" =>
          AddressColumn(stdout[Len(stdout)].v, 1) = NonAhciHosts

(***************************************************************************)
(* Rows of the command table being built by print_scsi_cmnds.              *)
(***************************************************************************)
CmndRows ==
    IF output # << >> /\ output[1] = CmndsHeader
    THEN [k \in 1..Len(output) - 1 |-> output[k + 1]]
    ELSE << >>

\* the request descriptor of the fixture for the request at address req
ReqDesc(req) ==
    fixture.reqs[CHOOSE r \in DOMAIN fixture.reqs : RequestAddr(r) = req]

(***************************************************************************)
(* C3: the age of a command row is never negative: zero when the command's *)
(* jiffies_at_alloc is greater than the sampled jiffies, and otherwise     *)
(* (jiffies - jiffies_at_alloc) scaled by 1000000.                         *)
(***************************************************************************)
C3_AgeClamped ==
    \A k \in DOMAIN CmndRows :
        LET d == ReqDesc(CmndRows[k][2].v)
        IN  /\ CmndRows[k][7].v >= 0
            /\ CmndRows[k][7] =
                  timestamp_str(IF d.alloc > fixture.jiffies THEN 0
                                ELSE (fixture.jiffies - d.alloc) * 1000000)

(***************************************************************************)
(* C6: the Length of a command row is ((cmnd[7] << 8) | cmnd[8]) *         *)
(* transfersize when cmnd[0] is 0x28 or 0x2A and 0 for every other opcode. *)
(***************************************************************************)
C6_TransferLength ==
    \A k \in DOMAIN CmndRows :
        LET d == ReqDesc(CmndRows[k][2].v)
        IN  CmndRows[k][6] =
                str(IF d.opcode \in {40, 42}
                    THEN (256 * d.b7 + d.b8) * d.transfersize
                    ELSE 0)

\* the READ(10) of four blocks of 512 bytes has its row, with Length 2048
C6_Witness ==
    \E k \in DOMAIN CmndRows :
        LET d == ReqDesc(CmndRows[k][2].v)
        IN  /\ d.opcode = 40 /\ d.b7 = 0 /\ d.b8 = 4 /\ d.transfersize = 512
            /\ CmndRows[k][6] = str(2048)

(***************************************************************************)
(* C10: the Sector of every command row is read from the bio of the row's  *)
(* own request: no row carries the sector of an earlier command or disk,   *)
(* and a request with a NULL bio never has a row built from an unset       *)
(* `sector`.                                                               *)
(***************************************************************************)
C10_SectorOfOwnBio ==
    /\ raised # "UnboundLocalError"
    /\ \A k \in DOMAIN CmndRows :
          LET d == ReqDesc(CmndRows[k][2].v)
          IN  /\ d.has_bio
              /\ CmndRows[k][8] = str(d.sector)

(***************************************************************************)
(* C5: for_each_scsi_cmnd enters exactly one of the two paths: the         *)
(* multi-queue one if and only if struct request_queue has mq_ops and the  *)
(* queue's mq_ops is not NULL, the single-queue one otherwise; what it     *)
(* yields are the commands of the requests that path enumerates, in order. *)
(***************************************************************************)
C5_OnePath ==
    pc = "print_scsi_cmnds_cmd" =>
        LET q == prog.request_queue[prog.gendisk[prog.disks[disk_i]].queue]
            mq == prog.layout.mq_ops /\ q.mq_ops # 0
        IN  /\ Len(cmnd_it.calls) = 1
            /\ cmnd_it.calls[1] = "for_each_scsi_cmd_mq" <=> mq
            /\ cmnd_it.calls[1] = "for_each_scsi_cmd_sq" <=> ~mq
            /\ mq => cmnd_it.cmnds =
                        [k \in DOMAIN q.tags |-> q.tags[k][2] + Sizeof_request]
            /\ ~mq => cmnd_it.cmnds =
                        [k \in DOMAIN q.queue_head |->
                            q.queue_head[k] + Sizeof_request]

\* a queue of a layout that has mq_ops, whose mq_ops is NULL, with pending
\* requests: the single-queue path was entered
C5_Witness ==
    /\ pc = "print_scsi_cmnds_cmd"
    /\ prog.layout.mq_ops
    /\ prog.request_queue[prog.gendisk[prog.disks[disk_i]].queue].mq_ops = 0
    /\ cmnd_it.calls = <<"for_each_scsi_cmd_sq">>
    /\ Len(cmnd_it.cmnds) = 2

(***************************************************************************)
(* C9: on both paths every yielded command address is the address of the   *)
(* pending request plus sizeof(struct request), in the order the requests  *)
(* are pending, and no yielded address is zero.                            *)
(***************************************************************************)
C9_CmndBehindRequest ==
    pc = "print_scsi_cmnds_cmd" =>
        LET pending == fixture.disks[disk_i].pending
        IN  /\ cmnd_it.cmnds =
                  [k \in DOMAIN pending |->
                      RequestAddr(pending[k]) + Sizeof_request]
            /\ \A k \in DOMAIN cmnd_it.cmnds : cmnd_it.cmnds[k] # 0

\* two requests pending on a single-queue disk, the second one at the
\* higher address, both turned into commands
C9_Witness ==
    /\ pc = "print_scsi_cmnds_cmd"
    /\ cmnd_it.calls = <<"for_each_scsi_cmd_sq">>
    /\ fixture.disks[disk_i].pending = <<2, 1>>
    /\ cmnd_it.cmnds = <<RequestAddr(2) + Sizeof_request,
                         RequestAddr(1) + Sizeof_request>>

(***************************************************************************)
(* C4: when sd_mod's type information is not loaded, ScsiInfo.run visits   *)
(* no host, device, disk or command, whatever the flags: no row is built,  *)
(* no host header is printed, no command enumeration is started, no        *)
(* exception leaves it, and it ends having printed the message if          *)
(* --devices or --queue was given.                                         *)
(***************************************************************************)
C4_NoTraversalWithoutDebuginfo ==
    ~prog.sd_mod =>
        /\ Len(output) <= 1
        /\ HeaderHosts = << >>
        /\ cmnd_it.calls = << >>
        /\ raised = "none"
        /\ (pc = "done" /\ (args.devices \/ args.queue)) =>
              \E k \in DOMAIN stdout : stdout[k] = Line(ensure_debuginfo)

\* The part of C4 the code keeps: without sd_mod's type information
\* print_shost_devs prints the message and traverses nothing.
DevsReportGated ==
    ~prog.sd_mod => pc \notin {"print_shost_devs", "print_shost_devs_dev"}

====
